---- MODULE Spec2Model ----
(***************************************************************************)
(* Model of the timed playback engine of auto-enter-by-lrc.py              *)
(* (class LyricAutoFiller and class ActionBlock).                          *)
(*                                                                         *)
(* Execution contexts:                                                     *)
(*   "ui"      the Qt main thread (button clicks, queued callbacks)        *)
(*   "hotkey"  the keyboard library's listener thread (F6 / F7 callbacks)  *)
(*   1..N      the threading.Thread objects running lyric_filling_loop     *)
(* Every step reads or writes shared attributes of the LyricAutoFiller     *)
(* object at the granularity of one source statement.                      *)
(***************************************************************************)
EXTENDS Integers, Sequences, FiniteSets, TLC

\* ---------------------------------------------------------------- bounds
MaxStarts == 2      \* start_filling() calls issued by the environment
MaxRecords == 2     \* records in the loaded lyric list
MaxOffset == 1      \* largest record offset, in clock units
MaxPending == 1     \* queued callbacks the Qt event loop lets wait
MaxLines == 3       \* lines of a lyric file

\* ------------------------------------------------------ program constants
NoTime == -1        \* self.start_time = None
NoOffset == -1      \* parse_time returns None

Contexts == {"ui", "hotkey"}
Threads == 1..MaxStarts
Texts == <<"La la", "Do re", "Mi fa">>
KnownKeys == {"enter"}

\* ---------------------------------------------------------- ActionBlock
TextAction(s) == [type |-> "text", text |-> s, key |-> "", duration |-> 0]
KeyAction(k) == [type |-> "key", text |-> "", key |-> k, duration |-> 0]
WaitAction(d) == [type |-> "wait", text |-> "", key |-> "", duration |-> d]

DefaultSequence == <<TextAction(""), KeyAction("enter")>>

ActionSequences ==
    { DefaultSequence,
      <<WaitAction(1), TextAction("fixed"), KeyAction("enter")>>,
      <<KeyAction("nokey")>> }

\* ------------------------------------------------------------ lyric lists
Record(o, s) == [time |-> o, text |-> s]

Sorted(l) == \A i \in 1..Len(l) - 1 : l[i].time <= l[i + 1].time

\* lists of n records; the i-th line of the file carries the i-th text
RecordsOfLen(n) ==
    { [i \in 1..n |-> Record(o[i], Texts[i])] : o \in [1..n -> 0..MaxOffset] }

\* the lists load_lrc_file leaves in self.lyrics, sorted ascending by time:
\* the empty one (no file loaded yet) and those of MaxRecords records
LyricLists ==
    UNION { {l \in RecordsOfLen(n) : Sorted(l)} : n \in {0, MaxRecords} }

VARIABLES
    lyrics,           \* self.lyrics
    action_sequence,  \* self.action_sequence
    is_playing,       \* self.is_playing
    elapsed,          \* time.time() - self.start_time, saturated at MaxOffset
    current_index,    \* self.current_index (0-based)
    status_label,     \* self.status_label text
    start_button,     \* self.start_button enabled
    stop_button,      \* self.stop_button enabled
    ui_queue,         \* callbacks queued by QTimer.singleShot(0, ...)
    highlighted,      \* index selected in self.lyric_list, -1 for none
    ctx,              \* position of each calling context inside start/stop
    threads,          \* the lyric_filling_loop threads
    starts,           \* start_filling() calls that did not return at line 789
    uncaught,         \* last exception that ended a loop thread
    dispatched,       \* history: dispatches since current_index was set to 0
                      \*   (kept at 0 once in_order is lost)
    in_order,         \* history: the k-th of them was of record k-1
    stoppedBy,        \* history: who cleared is_playing last
    stop_requested,   \* history: a user stop() found the scheduler running
    awaiting_idle,    \* history: a user stop() cleared is_playing and the
                      \*   scheduler has not been idle since
    begun_after_stop, \* history: dispatches begun since the last user stop()
                      \*   returned, while no start() has followed it
    load              \* the load_lrc_file call in progress: its position and
                      \*   its locals content, time_str, total_seconds

vars == <<lyrics, action_sequence, is_playing, elapsed, current_index,
          status_label, start_button, stop_button, ui_queue, highlighted,
          ctx, threads, starts, uncaught, dispatched, in_order, stoppedBy,
          stop_requested, awaiting_idle, begun_after_stop, load>>

config == <<lyrics, action_sequence, load>>
session == <<is_playing, elapsed, current_index>>
widgets == <<status_label, start_button, stop_button>>
marks == <<dispatched, in_order, stoppedBy, stop_requested>>
hist == <<marks, awaiting_idle, begun_after_stop>>

\* a thread that does not exist (not yet created, or ended)
NoThread ==
    [pc |-> "none", current_time |-> 0, lyric_text |-> "", seq |-> <<>>,
     pos |-> 0, eff |-> <<>>, rem |-> 0, rec |-> -1, tmp |-> 0,
     stopped_in_flight |-> FALSE]

NewThread == [NoThread EXCEPT !.pc = "while"]

\* no load_lrc_file call is in progress
NoLoad ==
    [pc |-> "idle", content |-> <<>>, i |-> 0, time_str |-> <<>>,
     total_seconds |-> NoOffset]

Init ==
    /\ lyrics \in LyricLists
    /\ action_sequence \in ActionSequences
    /\ is_playing = FALSE
    /\ elapsed = NoTime
    /\ current_index = 0
    /\ status_label = "ready"
    /\ start_button = TRUE
    /\ stop_button = FALSE
    /\ ui_queue = <<>>
    /\ highlighted = -1
    /\ ctx = [c \in Contexts |-> "idle"]
    /\ threads = [t \in Threads |-> NoThread]
    /\ starts = 0
    /\ uncaught = "none"
    /\ dispatched = 0
    /\ in_order = TRUE
    /\ stoppedBy = "none"
    /\ stop_requested = FALSE
    /\ awaiting_idle = FALSE
    /\ begun_after_stop = 0
    /\ load = NoLoad

Highlight(i) == [kind |-> "highlight", index |-> i]
Warning == [kind |-> "warning", index |-> -1]

\* the selection after the queued callback m has run:
\* _highlight_current_lyric (843-853) or the warning box (695)
Run(m) ==
    IF m.kind = "highlight"
    THEN IF 0 <= m.index /\ m.index < Len(lyrics) THEN m.index ELSE -1
    ELSE highlighted

\* QTimer.singleShot(0, callback) (695, 841): the callback is queued; the
\* event loop has run the oldest one by the time more than MaxPending wait
Post(m) ==
    IF Len(ui_queue) < MaxPending
    THEN /\ ui_queue' = Append(ui_queue, m)
         /\ UNCHANGED highlighted
    ELSE /\ ui_queue' = Append(Tail(ui_queue), m)
         /\ highlighted' = Run(Head(ui_queue))

SetCtx(c, pc) == ctx' = [ctx EXCEPT ![c] = pc]
SetThread(t, r) == threads' = [threads EXCEPT ![t] = r]

InFlight(t) == threads[t].pc \in {"exec", "waiting"}

\* the positions inside the while loop of lines 816-831
LoopPcs == {"while", "time", "next", "highlight", "text", "exec", "waiting",
            "inc_read", "inc_write"}

\* the threads that are inside the while loop
ActiveLoops == {t \in Threads : threads[t].pc \in LoopPcs}

\* the scheduler is idle: the running flag is false and no timing loop is left
Idle == ~is_playing /\ ActiveLoops = {}

\* a stop() of the user has cleared is_playing and has returned, and no
\* start() has been called since
PostStop ==
    /\ ~is_playing
    /\ stoppedBy = "user"
    /\ \A c \in Contexts : ctx[c] = "idle"

\* a step that clears is_playing or takes a thread out of the loop updates
\* awaiting_idle; stopNow marks line 807 run by a user stop()
Track(stopNow) == awaiting_idle' = ((awaiting_idle \/ stopNow) /\ ~Idle')

\* the Thread object created at line 799 takes the first unused slot
FreeSlot == CHOOSE t \in Threads :
                /\ threads[t].pc = "none"
                /\ \A u \in Threads : threads[u].pc = "none" => t <= u

\* ------------------------------------------------- start_filling (783-801)
\* mutant of NoRecords: the guard of lines 784-786 is missing
NoRecordsNever == FALSE

\* line 784: "not self.lyrics"
NoRecords == lyrics = <<>>

\* lines 784-786: the guard on the record list
StartCheck(c) ==
    /\ ctx[c] = "idle"
    /\ starts + Cardinality({d \in Contexts : ctx[d] = "start_guard"}) < MaxStarts
    /\ c = "ui" => start_button
    /\ IF NoRecords
       THEN /\ Post(Warning)
            /\ starts' = starts + 1
            /\ UNCHANGED ctx
       ELSE /\ UNCHANGED <<ui_queue, highlighted, starts>>
            /\ SetCtx(c, "start_guard")
    /\ UNCHANGED <<config, session, widgets, hist, threads,
                   uncaught>>

\* mutant of AlreadyPlaying: the guard of lines 788-789 is missing
AlreadyPlayingNever == FALSE

\* line 788: the test that makes a start() during playback return
AlreadyPlaying == is_playing

\* lines 788-789
StartGuard(c) ==
    /\ ctx[c] = "start_guard"
    /\ IF AlreadyPlaying
       THEN /\ SetCtx(c, "idle")
            /\ UNCHANGED starts
       ELSE /\ SetCtx(c, "start_playing")
            /\ starts' = starts + 1
    /\ UNCHANGED <<config, session, widgets, hist, ui_queue, highlighted,
                   threads, uncaught>>

\* line 791
StartSetPlaying(c) ==
    /\ ctx[c] = "start_playing"
    /\ is_playing' = TRUE
    /\ stoppedBy' = "none"
    /\ SetCtx(c, "start_time")
    /\ UNCHANGED <<config, elapsed, current_index, widgets, ui_queue,
                   highlighted, threads, starts, uncaught, dispatched,
                   in_order, stop_requested, awaiting_idle>>
    /\ begun_after_stop' = 0

\* line 792
StartSetTime(c) ==
    /\ ctx[c] = "start_time"
    /\ elapsed' = 0
    /\ SetCtx(c, "start_index")
    /\ UNCHANGED <<config, is_playing, current_index, widgets, hist, ui_queue,
                   highlighted, threads, starts, uncaught>>

\* line 793
StartSetIndex(c) ==
    /\ ctx[c] = "start_index"
    /\ current_index' = 0
    /\ dispatched' = 0
    /\ in_order' = TRUE
    /\ SetCtx(c, "start_spawn")
    /\ UNCHANGED <<config, is_playing, elapsed, widgets, ui_queue,
                   highlighted, threads, starts, uncaught, stoppedBy,
                   stop_requested, awaiting_idle, begun_after_stop>>

\* lines 794-801
StartSpawn(c) ==
    /\ ctx[c] = "start_spawn"
    /\ start_button' = FALSE
    /\ stop_button' = TRUE
    /\ status_label' = "filling"
    /\ SetThread(FreeSlot, NewThread)
    /\ SetCtx(c, "idle")
    /\ UNCHANGED <<config, session, hist, ui_queue, highlighted, starts,
                   uncaught>>

\* -------------------------------------------------- stop_filling (803-813)
\* line 807, run by a calling context (who = "user") or by a loop thread
\* at natural completion (who = "loop")
ClearPlaying(who) ==
    /\ is_playing' = FALSE
    /\ stoppedBy' = IF is_playing THEN who ELSE stoppedBy

\* lines 808-813
StopEpilogue ==
    /\ start_button' = TRUE
    /\ stop_button' = FALSE
    /\ status_label' = "stopped"
    /\ Post(Highlight(-1))

\* mutant of StopProceeds: the guard of lines 804-805 is missing
StopProceedsAlways == TRUE

\* line 804: stop_filling goes on only when the scheduler is running
StopProceeds == is_playing

\* lines 804-805: the call returns at once unless is_playing
StopCheck(c) ==
    /\ ctx[c] = "idle"
    /\ c = "ui" => stop_button
    /\ StopProceeds
    /\ SetCtx(c, "stop_set")
    /\ stop_requested' = TRUE
    /\ UNCHANGED <<config, session, widgets, ui_queue, highlighted, threads,
                   starts, uncaught, dispatched, in_order, stoppedBy,
                   awaiting_idle, begun_after_stop>>

\* line 807
StopSet(c) ==
    /\ ctx[c] = "stop_set"
    /\ ClearPlaying("user")
    /\ threads' = [t \in Threads |->
                     IF InFlight(t)
                     THEN [threads[t] EXCEPT !.stopped_in_flight = TRUE]
                     ELSE threads[t]]
    /\ SetCtx(c, "stop_ui")
    /\ UNCHANGED <<config, elapsed, current_index, widgets, ui_queue,
                   highlighted, starts, uncaught, dispatched, in_order,
                   stop_requested, begun_after_stop>>
    /\ Track(TRUE)

\* lines 808-813
StopFinish(c) ==
    /\ ctx[c] = "stop_ui"
    /\ StopEpilogue
    /\ SetCtx(c, "idle")
    /\ begun_after_stop' = 0
    /\ UNCHANGED <<config, session, marks, awaiting_idle, threads, starts,
                   uncaught>>

\* ------------------------------------------------ ActionBlock.execute (22-33)
\* the effect one action has on the input-injection backend
Effect(action) ==
    CASE action.type = "text" -> [op |-> "write", arg |-> action.text]
      [] action.type = "key" -> [op |-> "press", arg |-> action.key]
      [] action.type = "wait" -> [op |-> "sleep", arg |-> action.duration]

\* keyboard.write / keyboard.press_and_release can raise; an unknown key
\* name always does
CanRaise(action) == action.type \in {"text", "key"}
MustRaise(action) == action.type = "key" /\ action.key \notin KnownKeys

\* ----------------------------------------- execute_action_sequence (855-864)
\* mutant of Substituted: the action is executed as stored, without the
\* temporary ActionBlock of line 861
SubstitutedStored(action, lyric_text) == action

\* lines 859-864: a text action is replaced by a temporary one that carries
\* the current lyric
Substituted(action, lyric_text) ==
    IF action.type = "text" THEN TextAction(lyric_text) ELSE action

\* the thread after the action at pos has returned
Advance(r) ==
    IF r.pos < Len(r.seq)
    THEN [r EXCEPT !.pc = "exec", !.pos = r.pos + 1, !.rem = 0]
    ELSE [r EXCEPT !.pc = "inc_read", !.rem = 0]

\* one iteration of "for action in self.action_sequence" whose execute()
\* does not raise
ExecAction(t) ==
    LET r == threads[t]
        a == Substituted(r.seq[r.pos], r.lyric_text)
        done == [r EXCEPT !.eff = Append(r.eff, Effect(a))]
    IN  /\ r.pc = "exec"
        /\ ~MustRaise(a)
        /\ IF a.type = "wait"
           THEN SetThread(t, [done EXCEPT !.pc = "waiting", !.rem = a.duration])
           ELSE SetThread(t, Advance(done))
        /\ UNCHANGED <<config, session, widgets, hist, ui_queue, highlighted,
                       ctx, starts, uncaught>>

\* execute() raises: nothing catches it in execute_action_sequence or in
\* lyric_filling_loop, so the thread ends
ExecRaise(t) ==
    LET r == threads[t]
        a == Substituted(r.seq[r.pos], r.lyric_text)
    IN  /\ r.pc = "exec"
        /\ CanRaise(a)
        /\ SetThread(t, NoThread)
        /\ uncaught' = "ActionError"
        /\ UNCHANGED <<config, session, widgets, marks, ui_queue, highlighted,
                       ctx, starts, begun_after_stop>>
        /\ Track(FALSE)

\* time.sleep(duration) of a wait action returns (line 30)
WaitDone(t) ==
    /\ threads[t].pc = "waiting"
    /\ threads[t].rem = 0
    /\ SetThread(t, Advance(threads[t]))
    /\ UNCHANGED <<config, session, widgets, hist, ui_queue, highlighted,
                   ctx, starts, uncaught>>

\* --------------------------------------------- lyric_filling_loop (815-836)
\* line 816, on entry and after the tick sleep of line 831
LoopWhile(t) ==
    LET r == [threads[t] EXCEPT !.stopped_in_flight = FALSE]
    IN  /\ threads[t].pc = "while"
        /\ IF is_playing /\ current_index < Len(lyrics)
           THEN SetThread(t, [r EXCEPT !.pc = "time"])
           ELSE SetThread(t, [r EXCEPT !.pc = "fin"])
        /\ UNCHANGED <<config, session, widgets, marks, ui_queue, highlighted,
                       ctx, starts, uncaught, begun_after_stop>>
        /\ Track(FALSE)

\* line 817
LoopTime(t) ==
    /\ threads[t].pc = "time"
    /\ SetThread(t, [threads[t] EXCEPT !.pc = "next", !.current_time = elapsed])
    /\ UNCHANGED <<config, session, widgets, hist, ui_queue, highlighted,
                   ctx, starts, uncaught>>

\* lines 818-820 (and 831 when the record is not due);
\* self.lyrics[self.current_index] raises IndexError when out of range
LoopNext(t) ==
    LET r == [threads[t] EXCEPT !.current_time = 0]
    IN  /\ threads[t].pc = "next"
        /\ IF current_index >= Len(lyrics)
           THEN /\ SetThread(t, NoThread)
                /\ uncaught' = "IndexError"
           ELSE /\ UNCHANGED uncaught
                /\ IF threads[t].current_time >= lyrics[current_index + 1].time
                   THEN SetThread(t, [r EXCEPT !.pc = "highlight"])
                   ELSE SetThread(t, [r EXCEPT !.pc = "while"])
        /\ UNCHANGED <<config, session, widgets, marks, ui_queue, highlighted,
                       ctx, starts, begun_after_stop>>
        /\ Track(FALSE)

\* line 822 with highlight_current_lyric (838-841)
LoopHighlight(t) ==
    /\ threads[t].pc = "highlight"
    /\ Post(Highlight(current_index))
    /\ SetThread(t, [threads[t] EXCEPT !.pc = "text"])
    /\ UNCHANGED <<config, session, widgets, hist, ctx, starts,
                   uncaught>>

\* lines 825-826 up to the first action of the sequence
LoopText(t) ==
    LET r == threads[t]
        begun == [r EXCEPT !.lyric_text = lyrics[current_index + 1].text,
                           !.rec = current_index,
                           !.seq = action_sequence,
                           !.pos = 1,
                           !.eff = <<>>]
    IN  /\ r.pc = "text"
        /\ IF current_index >= Len(lyrics)
           THEN /\ SetThread(t, NoThread)
                /\ uncaught' = "IndexError"
                /\ UNCHANGED <<dispatched, in_order, begun_after_stop>>
           ELSE /\ UNCHANGED uncaught
                /\ begun_after_stop' = IF PostStop THEN begun_after_stop + 1
                                                  ELSE begun_after_stop
                /\ in_order' = (in_order /\ current_index = dispatched)
                /\ dispatched' = IF in_order' THEN dispatched + 1 ELSE 0
                /\ IF action_sequence = <<>>
                   THEN SetThread(t, [begun EXCEPT !.pc = "inc_read"])
                   ELSE SetThread(t, [begun EXCEPT !.pc = "exec"])
        /\ UNCHANGED <<config, session, widgets, ui_queue, highlighted, ctx,
                       starts, stoppedBy, stop_requested>>
        /\ Track(FALSE)

\* line 828, the read of self.current_index
LoopIncRead(t) ==
    /\ threads[t].pc = "inc_read"
    /\ SetThread(t, [threads[t] EXCEPT !.pc = "inc_write",
                                       !.tmp = current_index,
                                       !.lyric_text = "", !.seq = <<>>,
                                       !.pos = 0, !.eff = <<>>, !.rec = -1])
    /\ UNCHANGED <<config, session, widgets, hist, ui_queue, highlighted,
                   ctx, starts, uncaught>>

\* line 828, the write of self.current_index, then the sleep of line 831
LoopIncWrite(t) ==
    /\ threads[t].pc = "inc_write"
    /\ current_index' = threads[t].tmp + 1
    /\ SetThread(t, [threads[t] EXCEPT !.pc = "while", !.tmp = 0])
    /\ UNCHANGED <<config, is_playing, elapsed, widgets, hist, ui_queue,
                   highlighted, ctx, starts, uncaught>>

\* line 834
LoopFin(t) ==
    /\ threads[t].pc = "fin"
    /\ IF current_index >= Len(lyrics)
       THEN SetThread(t, [threads[t] EXCEPT !.pc = "stop_check"])
       ELSE SetThread(t, NoThread)
    /\ UNCHANGED <<config, session, widgets, hist, ui_queue, highlighted,
                   ctx, starts, uncaught>>

\* line 835 calling stop_filling: lines 804-805
LoopStopCheck(t) ==
    /\ threads[t].pc = "stop_check"
    /\ IF StopProceeds
       THEN SetThread(t, [threads[t] EXCEPT !.pc = "stop_set"])
       ELSE SetThread(t, [threads[t] EXCEPT !.pc = "status"])
    /\ UNCHANGED <<config, session, widgets, hist, ui_queue, highlighted,
                   ctx, starts, uncaught>>

\* line 807 in the loop thread
LoopStopSet(t) ==
    /\ threads[t].pc = "stop_set"
    /\ ClearPlaying("loop")
    /\ SetThread(t, [threads[t] EXCEPT !.pc = "stop_ui"])
    /\ UNCHANGED <<config, elapsed, current_index, widgets, ui_queue,
                   highlighted, ctx, starts, uncaught, dispatched, in_order,
                   stop_requested, begun_after_stop>>
    /\ Track(FALSE)

\* lines 808-813 in the loop thread
LoopStopFinish(t) ==
    /\ threads[t].pc = "stop_ui"
    /\ StopEpilogue
    /\ SetThread(t, [threads[t] EXCEPT !.pc = "status"])
    /\ UNCHANGED <<config, session, hist, ctx, starts, uncaught>>

\* line 836, then the thread ends
LoopStatus(t) ==
    /\ threads[t].pc = "status"
    /\ status_label' = "completed"
    /\ SetThread(t, NoThread)
    /\ UNCHANGED <<config, session, hist, start_button, stop_button, ui_queue,
                   highlighted, ctx, starts, uncaught>>

\* ------------------------------------------------------------ environment
\* one clock unit passes: time.time() grows, sleeping wait actions get closer
\* to their wake-up
Tick ==
    /\ elapsed # NoTime
    /\ \/ elapsed < MaxOffset
       \/ \E t \in Threads : threads[t].pc = "waiting" /\ threads[t].rem > 0
    /\ elapsed' = IF elapsed < MaxOffset THEN elapsed + 1 ELSE elapsed
    /\ threads' = [t \in Threads |->
                     IF threads[t].pc = "waiting" /\ threads[t].rem > 0
                     THEN [threads[t] EXCEPT !.rem = threads[t].rem - 1]
                     ELSE threads[t]]
    /\ UNCHANGED <<config, is_playing, current_index, widgets, hist, ui_queue,
                   highlighted, ctx, starts, uncaught>>

\* the Qt event loop, idle in the main thread, runs the oldest queued callback
Deliver ==
    /\ ctx["ui"] = "idle"
    /\ load.pc = "idle"
    /\ ui_queue # <<>>
    /\ ui_queue' = Tail(ui_queue)
    /\ highlighted' = Run(Head(ui_queue))
    /\ UNCHANGED <<config, session, widgets, hist, ctx, threads, starts,
                   uncaught>>

Next ==
    \/ \E c \in Contexts : StartCheck(c)
    \/ \E c \in Contexts : StartGuard(c)
    \/ \E c \in Contexts : StartSetPlaying(c)
    \/ \E c \in Contexts : StartSetTime(c)
    \/ \E c \in Contexts : StartSetIndex(c)
    \/ \E c \in Contexts : StartSpawn(c)
    \/ \E c \in Contexts : StopCheck(c)
    \/ \E c \in Contexts : StopSet(c)
    \/ \E c \in Contexts : StopFinish(c)
    \/ \E t \in Threads : LoopWhile(t)
    \/ \E t \in Threads : LoopTime(t)
    \/ \E t \in Threads : LoopNext(t)
    \/ \E t \in Threads : LoopHighlight(t)
    \/ \E t \in Threads : LoopText(t)
    \/ \E t \in Threads : ExecAction(t)
    \/ \E t \in Threads : ExecRaise(t)
    \/ \E t \in Threads : WaitDone(t)
    \/ \E t \in Threads : LoopIncRead(t)
    \/ \E t \in Threads : LoopIncWrite(t)
    \/ \E t \in Threads : LoopFin(t)
    \/ \E t \in Threads : LoopStopCheck(t)
    \/ \E t \in Threads : LoopStopSet(t)
    \/ \E t \in Threads : LoopStopFinish(t)
    \/ \E t \in Threads : LoopStatus(t)
    \/ Tick
    \/ Deliver

Spec == Init /\ [][Next]_vars

\* playback that is started from the hotkey and never stopped by the user:
\* the behaviours of Spec in which the hotkey thread alone calls
\* start_filling and nobody calls stop_filling
NextPlay ==
    \/ StartCheck("hotkey")
    \/ StartGuard("hotkey")
    \/ StartSetPlaying("hotkey")
    \/ StartSetTime("hotkey")
    \/ StartSetIndex("hotkey")
    \/ StartSpawn("hotkey")
    \/ \E t \in Threads : LoopWhile(t)
    \/ \E t \in Threads : LoopTime(t)
    \/ \E t \in Threads : LoopNext(t)
    \/ \E t \in Threads : LoopHighlight(t)
    \/ \E t \in Threads : LoopText(t)
    \/ \E t \in Threads : ExecAction(t)
    \/ \E t \in Threads : ExecRaise(t)
    \/ \E t \in Threads : WaitDone(t)
    \/ \E t \in Threads : LoopIncRead(t)
    \/ \E t \in Threads : LoopIncWrite(t)
    \/ \E t \in Threads : LoopFin(t)
    \/ \E t \in Threads : LoopStopCheck(t)
    \/ \E t \in Threads : LoopStopSet(t)
    \/ \E t \in Threads : LoopStopFinish(t)
    \/ \E t \in Threads : LoopStatus(t)
    \/ Tick
    \/ Deliver

SpecPlay == Init /\ [][NextPlay]_vars

\* playback that is started and stopped from the hotkeys only: the
\* behaviours of Spec in which the Start and Stop buttons are never clicked,
\* so that no two calls of start_filling or stop_filling overlap
NextKeys ==
    \/ NextPlay
    \/ StopCheck("hotkey")
    \/ StopSet("hotkey")
    \/ StopFinish("hotkey")

SpecKeys == Init /\ [][NextKeys]_vars

\* ================================================= the lyric file parser
\* A line is the sequence of its characters. Offsets of parsed records are
\* in hundredths of a second: the value parse_time returns, times 100.

\* str.strip(): leading and trailing whitespace removed
IsSpace(ch) == ch \in {" ", "\n", "\t"}

RECURSIVE LStrip(_)
LStrip(s) == IF s # <<>> /\ IsSpace(Head(s)) THEN LStrip(Tail(s)) ELSE s

RECURSIVE RStrip(_)
RStrip(s) ==
    IF s # <<>> /\ IsSpace(s[Len(s)])
    THEN RStrip(SubSeq(s, 1, Len(s) - 1))
    ELSE s

\* mutant of Strip: the line is used as read
StripNone(s) == s

Strip(s) == RStrip(LStrip(s))

DigitChars == <<"0", "1", "2", "3", "4", "5", "6", "7", "8", "9">>
Digits == {DigitChars[n] : n \in DOMAIN DigitChars}
DigitVal(ch) == (CHOOSE n \in DOMAIN DigitChars : DigitChars[n] = ch) - 1

\* int(): the value of a string of decimal digits
RECURSIVE IntOf(_)
IntOf(d) ==
    IF d = <<>>
    THEN 0
    ELSE 10 * IntOf(SubSeq(d, 1, Len(d) - 1)) + DigitVal(d[Len(d)])

\* \d+ matched greedily from position i: the first position that holds no digit
RECURSIVE DigitsEnd(_, _)
DigitsEnd(s, i) ==
    IF i <= Len(s) /\ s[i] \in Digits THEN DigitsEnd(s, i + 1) ELSE i

\* re.match of \[(\d+):(\d+)<sep>(\d+)\] at the start of s (lines 726, 735)
MatchStamp(s, sep) ==
    LET a == DigitsEnd(s, 2)
        b == DigitsEnd(s, a + 1)
        c == DigitsEnd(s, b + 1)
        ok == /\ s # <<>> /\ s[1] = "["
              /\ a > 2 /\ a <= Len(s) /\ s[a] = ":"
              /\ b > a + 1 /\ b <= Len(s) /\ s[b] = sep
              /\ c > b + 1 /\ c <= Len(s) /\ s[c] = "]"
    IN  IF ok
        THEN [ok |-> TRUE, g1 |-> SubSeq(s, 2, a - 1),
              g2 |-> SubSeq(s, a + 1, b - 1), g3 |-> SubSeq(s, b + 1, c - 1),
              end |-> c]
        ELSE [ok |-> FALSE, g1 |-> <<>>, g2 |-> <<>>, g3 |-> <<>>, end |-> 0]

\* lines 729-732 and 738-741: minutes * 60 + seconds + hundredths / 100.0
StampValue(m) == (IntOf(m.g1) * 60 + IntOf(m.g2)) * 100 + IntOf(m.g3)

\* mutant of parse_time: only the [mm:ss.xx] format of line 726 is tried
parse_time_dot_only(time_str) ==
    IF MatchStamp(time_str, ".").ok
    THEN StampValue(MatchStamp(time_str, "."))
    ELSE NoOffset

\* parse_time (723-743)
parse_time(time_str) ==
    IF MatchStamp(time_str, ".").ok
    THEN StampValue(MatchStamp(time_str, "."))
    ELSE IF MatchStamp(time_str, ":").ok
         THEN StampValue(MatchStamp(time_str, ":"))
         ELSE NoOffset

\* lines 755-760: re.match of (\[\d+:\d+\.\d+\]|\[\d+:\d+:\d+\])(.*)
LineMatch(line) ==
    LET m == IF MatchStamp(line, ".").ok
             THEN MatchStamp(line, ".")
             ELSE MatchStamp(line, ":")
    IN  [ok |-> m.ok,
         time_str |-> SubSeq(line, 1, m.end),
         lyric |-> Strip(SubSeq(line, m.end + 1, Len(line)))]

\* lines 752-753: the stripped line, when it is a candidate
Candidate(raw) == Strip(raw) # <<>> /\ Head(Strip(raw)) = "["

\* lines 752-765: the records one line of the file appends (none or one)
ParseLine(raw) ==
    IF Candidate(raw) /\ LineMatch(Strip(raw)).ok
    THEN LET m == LineMatch(Strip(raw))
             total_seconds == parse_time(m.time_str)
         IN  IF total_seconds # NoOffset
             THEN <<Record(total_seconds, m.lyric)>>
             ELSE <<>>
    ELSE <<>>

\* list.sort(key=lambda x: x[0]) (768): stable, ascending by time
RECURSIVE InsertByTime(_, _)
InsertByTime(s, r) ==
    IF s = <<>>
    THEN <<r>>
    ELSE IF Head(s).time <= r.time
         THEN <<Head(s)>> \o InsertByTime(Tail(s), r)
         ELSE <<r>> \o s

\* mutant of SortByTime: line 768 is missing
SortByTimeNone(l) == l

RECURSIVE SortByTime(_)
SortByTime(l) ==
    IF l = <<>>
    THEN <<>>
    ELSE InsertByTime(SortByTime(SubSeq(l, 1, Len(l) - 1)), l[Len(l)])

\* the lines a file is made of, each with the record the format description
\* gives it (none, or offset in hundredths and text), its timestamp and the
\* three numbers written in it
LineTable ==
    <<
       [raw |-> <<"[", "0", "0", ":", "0", "1", ".", "5", "0", "]", "H", "e", "l", "l", "o", "\n">>,
        expect |-> <<Record(150, <<"H", "e", "l", "l", "o">>)>>, mm |-> 0, ss |-> 1, cc |-> 50,
        stamp |-> <<"[", "0", "0", ":", "0", "1", ".", "5", "0", "]">>],
       [raw |-> <<"[", "0", "0", ":", "0", "0", ".", "0", "0", "]", "H", "i", "\n">>,
        expect |-> <<Record(0, <<"H", "i">>)>>, mm |-> 0, ss |-> 0, cc |-> 0,
        stamp |-> <<"[", "0", "0", ":", "0", "0", ".", "0", "0", "]">>],
       [raw |-> <<"n", "o", "t", " ", "a", " ", "t", "a", "g", "\n">>,
        expect |-> <<>>, mm |-> 0, ss |-> 0, cc |-> 0, stamp |-> <<>>],
       [raw |-> <<"[", "0", "1", ":", "0", "2", ":", "0", "3", "]", "T", "e", "s", "t">>,
        expect |-> <<Record(6203, <<"T", "e", "s", "t">>)>>, mm |-> 1, ss |-> 2, cc |-> 3,
        stamp |-> <<"[", "0", "1", ":", "0", "2", ":", "0", "3", "]">>],
       [raw |-> <<"[", "t", "i", ":", "S", "o", "n", "g", "]", "\n">>,
        expect |-> <<>>, mm |-> 0, ss |-> 0, cc |-> 0, stamp |-> <<>>],
       [raw |-> <<"\n">>,
        expect |-> <<>>, mm |-> 0, ss |-> 0, cc |-> 0, stamp |-> <<>>],
       [raw |-> <<" ", " ", "[", "1", ":", "5", ".", "7", "]", " ", "\n">>,
        expect |-> <<Record(6507, <<>>)>>, mm |-> 1, ss |-> 5, cc |-> 7,
        stamp |-> <<"[", "1", ":", "5", ".", "7", "]">>]
    >>

RawLines == {LineTable[k].raw : k \in DOMAIN LineTable}

\* the files: every sequence of at most MaxLines of these lines
Files == UNION {[1..n -> RawLines] : n \in 0..MaxLines}

\* ------------------------------------------------ load_lrc_file (745-781)
\* what a step of load_lrc_file leaves alone; it runs in the Qt main thread
loadFrame == <<action_sequence, session, start_button, stop_button, ctx,
               threads, starts, uncaught, hist>>

\* lines 747-750: the file is read and self.lyrics emptied
LoadOpen(f) ==
    /\ load.pc = "idle"
    /\ ctx["ui"] = "idle"
    /\ load' = [NoLoad EXCEPT !.pc = "lines", !.content = f, !.i = 1]
    /\ lyrics' = <<>>
    /\ UNCHANGED <<loadFrame, status_label, ui_queue, highlighted>>

\* lines 747-748 raise (file missing, not UTF-8): lines 780-781
LoadFail ==
    /\ load.pc = "idle"
    /\ ctx["ui"] = "idle"
    /\ Post(Warning)
    /\ UNCHANGED <<loadFrame, lyrics, load, status_label>>

\* lines 751-765: one iteration of "for line in content"
LoadLine ==
    LET raw == load.content[load.i]
        m == LineMatch(Strip(raw))
    IN  /\ load.pc = "lines"
        /\ load.i <= Len(load.content)
        /\ lyrics' = lyrics \o ParseLine(raw)
        /\ load' = IF Candidate(raw) /\ m.ok
                   THEN [load EXCEPT !.i = load.i + 1,
                                     !.time_str = m.time_str,
                                     !.total_seconds = parse_time(m.time_str)]
                   ELSE [load EXCEPT !.i = load.i + 1]
        /\ UNCHANGED <<loadFrame, status_label, ui_queue, highlighted>>

\* line 768
LoadSort ==
    /\ load.pc = "lines"
    /\ load.i > Len(load.content)
    /\ lyrics' = SortByTime(lyrics)
    /\ load' = [load EXCEPT !.pc = "show"]
    /\ UNCHANGED <<loadFrame, status_label, ui_queue, highlighted>>

\* lines 771-778: the list widget is rebuilt and the status set; the call
\* returns
LoadShow ==
    /\ load.pc = "show"
    /\ highlighted' = -1
    /\ status_label' = "loaded"
    /\ load' = NoLoad
    /\ UNCHANGED <<loadFrame, lyrics, ui_queue>>

\* the window right after construction (541-566): nothing loaded
InitParse ==
    /\ Init
    /\ lyrics = <<>>
    /\ action_sequence = DefaultSequence

NextParse ==
    \/ \E f \in Files : LoadOpen(f)
    \/ LoadFail
    \/ LoadLine
    \/ LoadSort
    \/ LoadShow
    \/ Deliver

\* files are loaded, one after the other, and nothing is played
SpecParse == InitParse /\ [][NextParse]_vars

\* the files of one line
ShortFiles == {f \in Files : Len(f) = 1}

\* playback started from the hotkey while files are chosen or dropped in
\* the window: nothing disables the file button (581) or the drop target
\* (566) during playback
NextReload ==
    \/ NextPlay
    \/ \E f \in ShortFiles : LoadOpen(f)
    \/ LoadFail
    \/ LoadLine
    \/ LoadSort
    \/ LoadShow

SpecReload == Init /\ [][NextReload]_vars

\* ================================================================ claims
\* no handler is part-way through and no loop thread is left
Quiescent ==
    /\ \A c \in Contexts : ctx[c] = "idle"
    /\ \A t \in Threads : threads[t].pc = "none"

\* C1: at every reachable state at most one timing loop is active
C1_AtMostOneLoop == Cardinality(ActiveLoops) <= 1

\* C2: the action sequences of two different records are never in flight at
\* the same time
C2_NoConcurrentDispatch ==
    \A t, u \in Threads :
        (t # u /\ InFlight(t) /\ InFlight(u)) => threads[t].rec = threads[u].rec

\* C3: a user stop() that cleared the running flag does not stay unanswered:
\* when every handler has returned and every loop thread has ended, the
\* scheduler has been idle (flag false, no timing loop) at some moment since
\* that stop()
C3_StopReachesIdle == ~(awaiting_idle /\ Quiescent)

\* C4: within a session the dispatched record indices are 0, 1, 2, ...
\* without gaps or repetitions
C4_DispatchInOrder == in_order

\* C5: current_index stays within 0..len(records), no read of
\* records[current_index] is out of range, and only start() lowers the index
C5_IndexBounded ==
    /\ [](current_index >= 0 /\ current_index <= Len(lyrics))
    /\ [](uncaught # "IndexError")
    /\ [][current_index' < current_index
            => \E c \in Contexts : ctx[c] = "start_index"]_vars

\* C6: a session started on a non-empty list and never stopped by the user
\* comes to rest only after the loop itself dispatched every record and
\* cleared the running flag
C6_SessionCompletes ==
    (starts > 0 /\ lyrics # <<>> /\ ~stop_requested /\ Quiescent)
        => /\ ~is_playing
           /\ stoppedBy = "loop"
           /\ in_order
           /\ dispatched = Len(lyrics)

\* C7: a loop writes the "completed" status (line 836) only when the running
\* flag was cleared by the loop itself, never after a user stop()
C7_CompletedOnlyNatural ==
    \A t \in Threads : threads[t].pc = "status" => stoppedBy = "loop"

\* C8: a failing action never ends the timing loop
C8_FailureDoesNotEndLoop == uncaught # "ActionError"

\* what the i-th action of the configured sequence has to emit for record rec
ExpectedEffect(i, rec) ==
    LET a == action_sequence[i]
    IN  IF a.type = "text"
        THEN [op |-> "write", arg |-> lyrics[rec + 1].text]
        ELSE IF a.type = "key"
             THEN [op |-> "press", arg |-> a.key]
             ELSE [op |-> "sleep", arg |-> a.duration]

\* the actions of the sequence that thread t has started so far
Started(t) ==
    IF threads[t].pc = "exec" THEN threads[t].pos - 1 ELSE threads[t].pos

\* C9: the effects of a dispatch are, in sequence order, the record's text
\* for every text action and the stored parameters for every other action;
\* a completed dispatch of the default sequence wrote the text, then pressed
\* enter
C9_DispatchEffects ==
    \A t \in Threads :
        threads[t].pc \in {"exec", "waiting", "inc_read"} =>
            /\ threads[t].eff =
                   [i \in 1..Started(t) |-> ExpectedEffect(i, threads[t].rec)]
            /\ (threads[t].pc = "inc_read" /\ action_sequence = DefaultSequence)
                   => threads[t].eff =
                          <<[op |-> "write", arg |-> lyrics[threads[t].rec + 1].text],
                            [op |-> "press", arg |-> "enter"]>>

\* C9 witness: the second record was dispatched through the default sequence
\* and both of its actions returned
C9_Witness ==
    \E t \in Threads :
        /\ threads[t].pc = "inc_read"
        /\ threads[t].rec = 1
        /\ action_sequence = DefaultSequence
        /\ threads[t].eff = <<[op |-> "write", arg |-> Texts[2]],
                              [op |-> "press", arg |-> "enter"]>>

\* C10: after a stop() during a dispatch the sequence still runs on (it ends
\* early only when an action raises), and the loop leaves at its next check
\* of the running flag
C10_StopEndsLoopAfterDispatch ==
    [][\A t \in Threads :
          threads[t].stopped_in_flight =>
              /\ InFlight(t) =>
                     threads'[t].pc \in {"exec", "waiting", "inc_read", "none"}
              /\ threads[t].pc = "while" =>
                     threads'[t].pc \in {"while", "fin"}]_vars

\* C11: a start() that finds the scheduler running at line 788 returns at
\* once: is_playing, the start instant, current_index and the set of loop
\* threads are as before, so a single caller never has two loops running or
\* a record dispatched out of order
C11_StartWhileRunningNoOp ==
    /\ [][\A c \in Contexts :
             (ctx[c] = "start_guard" /\ is_playing /\ ctx'[c] # "start_guard")
                 => /\ ctx'[c] = "idle"
                    /\ UNCHANGED <<is_playing, elapsed, current_index, threads,
                                   starts>>]_vars
    /\ [](Cardinality(ActiveLoops) <= 1 /\ in_order)

\* C11 witness: a start() is at line 788 while a loop is running and one
\* record has already been dispatched
C11_Witness ==
    \E c \in Contexts :
        /\ ctx[c] = "start_guard"
        /\ is_playing
        /\ current_index = 1
        /\ ActiveLoops # {}

\* C12: with no records loaded a start() queues the warning and does nothing
\* else: the scheduler is never running, the start instant and current_index
\* keep their initial values and no loop thread exists
C12_StartOnEmptyRefused ==
    /\ [][(lyrics = <<>> /\ starts' # starts)
             => /\ \E i \in DOMAIN ui_queue' : ui_queue'[i] = Warning
                /\ UNCHANGED <<is_playing, elapsed, current_index, threads,
                               ctx, status_label, start_button, stop_button>>]_vars
    /\ [](lyrics = <<>>
             => /\ ~is_playing
                /\ elapsed = NoTime
                /\ current_index = 0
                /\ \A t \in Threads : threads[t] = NoThread)

\* C12 witness: start() was called with no records and its warning is queued
C12_Witness ==
    /\ lyrics = <<>>
    /\ starts = 1
    /\ ui_queue = <<Warning>>
    /\ ~is_playing

\* the record the format description gives a line of the table
ExpectOf(raw) ==
    LineTable[CHOOSE k \in DOMAIN LineTable : LineTable[k].raw = raw].expect

RECURSIVE ExpectedRecords(_)
ExpectedRecords(f) ==
    IF f = <<>> THEN <<>> ELSE ExpectOf(Head(f)) \o ExpectedRecords(Tail(f))

Occurrences(r, l) == Cardinality({i \in DOMAIN l : l[i] = r})

SameRecords(a, b) ==
    /\ Len(a) = Len(b)
    /\ \A i \in DOMAIN a : Occurrences(a[i], a) = Occurrences(a[i], b)

ScenarioA == <<LineTable[1].raw, LineTable[2].raw, LineTable[3].raw>>
ScenarioARecords ==
    <<Record(0, <<"H", "i">>), Record(150, <<"H", "e", "l", "l", "o">>)>>

\* C13: whatever the order of the lines, the list load_lrc_file leaves in
\* self.lyrics is sorted ascending by offset
C13_ParseSorted == load.pc \in {"show", "idle"} => Sorted(lyrics)

\* C13 witness: a file whose lines are out of order has been parsed and sorted
C13_Witness ==
    /\ load.pc = "show"
    /\ load.content = <<LineTable[1].raw, LineTable[2].raw>>
    /\ lyrics = ScenarioARecords

\* C14: the lines read so far gave one record for each line that starts with
\* a timestamp and none for any other line; the finished list holds exactly
\* those records, and scenario A gives [(0.0, "Hi"), (1.5, "Hello")]
C14_OneRecordPerStampedLine ==
    /\ load.pc = "lines"
           => lyrics = ExpectedRecords(SubSeq(load.content, 1, load.i - 1))
    /\ load.pc = "show"
           => /\ SameRecords(lyrics, ExpectedRecords(load.content))
              /\ load.content = ScenarioA => lyrics = ScenarioARecords

\* C14 witness: scenario A has been parsed
C14_Witness ==
    /\ load.pc = "show"
    /\ load.content = ScenarioA
    /\ lyrics = ScenarioARecords

\* C15: the offset parse_time gives a timestamp [MM:SS.CC] or [MM:SS:CC] is
\* 6000*MM + 100*SS + CC hundredths of a second, and no offset is negative
C15_OffsetFormula ==
    /\ \A k \in DOMAIN LineTable :
           (LineTable[k].stamp # <<>> /\ load.time_str = LineTable[k].stamp)
               => load.total_seconds = 6000 * LineTable[k].mm
                                         + 100 * LineTable[k].ss
                                         + LineTable[k].cc
    /\ \A i \in DOMAIN lyrics : lyrics[i].time >= 0

\* C15 witness: scenario B, "[01:02:03]Test", gave the record (62.03, "Test")
C15_Witness ==
    /\ load.pc = "lines"
    /\ load.time_str = LineTable[4].stamp
    /\ load.total_seconds = 6203
    /\ lyrics = <<Record(6203, <<"T", "e", "s", "t">>)>>

\* C16: the status text and the two buttons change only in steps in which no
\* loop thread moves: the background loop hands every such change to the
\* Qt main thread instead of making it itself
C16_UiOnlyFromUiContext ==
    [][widgets' # widgets
          => \A t \in Threads :
                 threads[t].pc # "none" => threads'[t].pc = threads[t].pc]_vars

\* C17: is_playing and current_index change only in steps of a loop thread,
\* never in a step of start_filling or stop_filling run by a caller
C17_SessionWrittenByLoopOnly ==
    [][(is_playing' # is_playing \/ current_index' # current_index)
          => \E t \in Threads :
                 threads[t].pc # "none" /\ threads'[t].pc # threads[t].pc]_vars

\* C18: a loop goes into the tick sleep of line 831 after a dispatch only
\* when no further record is due: records due at the same poll are all
\* dispatched in one pass
C18_BurstInOnePass ==
    [][\A t \in Threads :
          (threads[t].pc = "inc_write" /\ threads'[t].pc = "while")
              => ~(/\ current_index' < Len(lyrics)
                   /\ elapsed >= lyrics[current_index' + 1].time)]_vars

\* C19: a record is never dispatched early: in the step that begins the
\* dispatch of a record (lines 825-826), the time since the start instant of
\* the running session has reached the offset of that record
C19_NeverDispatchedEarly ==
    [][\A t \in Threads :
          (threads[t].pc = "text" /\ threads'[t].pc \in {"exec", "inc_read"})
              => elapsed >= lyrics[threads'[t].rec + 1].time]_vars

\* the step queues the notification that clears the highlighting
ClearNotified ==
    /\ ui_queue' # <<>>
    /\ ui_queue'[Len(ui_queue')] = Highlight(-1)

\* the step leaves everything but the position of the caller as it was
NothingChanged ==
    UNCHANGED <<config, session, widgets, hist, ui_queue, highlighted,
                starts, uncaught>>

\* C20: a stop_filling call goes past line 805 only when it finds is_playing
\* set, and then its last step queues the notification with index -1; a call
\* that finds is_playing clear returns without a notification and without a
\* change of state; no other step sets the status to "stopped"
C20_StopNotifiesOrNoOp ==
    [][/\ \A c \in Contexts :
              /\ (ctx[c] = "idle" /\ ctx'[c] = "stop_set") => is_playing
              /\ (ctx[c] = "stop_ui" /\ ctx'[c] = "idle") => ClearNotified
       /\ \A t \in Threads :
              /\ (threads[t].pc = "stop_check" /\ threads'[t].pc = "stop_set")
                     => is_playing
              /\ (threads[t].pc = "stop_check" /\ threads'[t].pc = "status")
                     => ~is_playing /\ NothingChanged
              /\ (threads[t].pc = "stop_ui" /\ threads'[t].pc = "status")
                     => ClearNotified
       /\ (status_label' = "stopped" /\ status_label # "stopped")
              => \/ \E c \in Contexts : ctx[c] = "stop_ui" /\ ctx'[c] = "idle"
                 \/ \E t \in Threads : /\ threads[t].pc = "stop_ui"
                                        /\ threads'[t].pc = "status"]_vars

\* C20 witness: a stop() from the user found the scheduler running and has
\* returned; the notification with index -1 is queued, and a loop thread
\* has come back from its own stop_filling call of line 835
C20_Witness ==
    /\ stop_requested
    /\ stoppedBy = "user"
    /\ \A c \in Contexts : ctx[c] = "idle"
    /\ ~is_playing
    /\ status_label = "stopped"
    /\ ui_queue # <<>>
    /\ ui_queue[Len(ui_queue)] = Highlight(-1)
    /\ \E t \in Threads : threads[t].pc = "status"

\* C21: the step of start_filling that starts the loop thread (lines 799-801)
\* finds is_playing set, current_index at 0 and the clock of the session
\* started, and the first record dispatched after a start is record 0
C21_StartResetsSession ==
    /\ [][\A c \in Contexts :
              (ctx[c] = "start_spawn" /\ ctx'[c] = "idle")
                  => is_playing /\ current_index = 0 /\ elapsed >= 0]_vars
    /\ [][\A t \in Threads :
              (/\ threads[t].pc = "text"
               /\ threads'[t].pc \in {"exec", "inc_read"}
               /\ in_order /\ dispatched = 0)
                  => threads'[t].rec = 0]_vars

\* C22: while a loop thread is inside the while loop the record list is not
\* changed, and no read of self.lyrics[self.current_index] is out of range
C22_RecordsFixedWhileRunning ==
    /\ [][ActiveLoops # {} => lyrics' = lyrics]_vars
    /\ [](uncaught # "IndexError")

\* C23: whenever is_playing is set and no start_filling call is between
\* lines 791 and 801, a lyric_filling_loop thread exists
C23_RunningHasLoop ==
    (/\ is_playing
     /\ \A c \in Contexts :
            ctx[c] \notin {"start_time", "start_index", "start_spawn"})
        => \E t \in Threads : threads[t].pc # "none"

\* C24: when a session has ended without an exception (is_playing clear,
\* every handler returned, no loop thread left) and every queued callback
\* has run, no line of the list is highlighted
C24_EndedSessionNoHighlight ==
    (/\ starts > 0
     /\ uncaught = "none"
     /\ ~is_playing
     /\ Quiescent
     /\ ui_queue = <<>>)
        => highlighted = -1

\* C25: after a stop() of the user has returned, and as long as no start()
\* follows, the dispatch of at most one more record begins
C25_OneMoreDispatchAfterStop == PostStop => begun_after_stop <= 1

====
